---- MODULE Spec2Model ----
(***************************************************************************)
(* Model of the ai-chat-service worker: the ChatGPTService completion      *)
(* client (src/src/chatgpt.ts), the GraphQL resolvers (schema.ts) and the  *)
(* worker's fetch handler (index.ts).                                      *)
(*                                                                         *)
(* Text is a sequence of one-character strings; the fixed fragments of a   *)
(* template literal are single tokens of such a sequence.  An optional     *)
(* value (undefined / absent) is None, a present value x is Some(x).       *)
(***************************************************************************)
EXTENDS Integers, Sequences, FiniteSets, TLC

\* ------------------------------------------------------------------ bounds
MaxKeyLen == 1
MaxMsgLen == 1
MaxChoices == 2

\* --------------------------------------------------------------- optionals
None == <<>>
Some(x) == <<x>>
Maybe(S) == {None} \cup {Some(x) : x \in S}

SeqsUpTo(S, n) == UNION {[1..k -> S] : k \in 0..n}

\* ------------------------------------------------------------------- text
KeyChars == {" ", "k"}
Keys == SeqsUpTo(KeyChars, MaxKeyLen)
MsgChars == {"a", "b"}
Messages == SeqsUpTo(MsgChars, MaxMsgLen)
Prompts == {<<"s">>}
ModelNames == {"", "gpt-4"}
Replies == {<<"y">>, <<"z">>}

IsWhitespace(c) == c = " "

RECURSIVE TrimStart(_)
TrimStart(s) ==
    IF s # <<>> /\ IsWhitespace(Head(s)) THEN TrimStart(Tail(s)) ELSE s

RECURSIVE TrimEnd(_)
TrimEnd(s) ==
    IF s # <<>> /\ IsWhitespace(s[Len(s)])
    THEN TrimEnd(SubSeq(s, 1, Len(s) - 1))
    ELSE s

\* String.prototype.trim
Trim(s) == TrimEnd(TrimStart(s))

\* ------------------------------------------------------ number conversions
NaN == -1
Digits == {"0", "1", "2", "3", "4", "5", "6", "7", "8", "9"}
DigitVal(c) ==
    CASE c = "0" -> 0 [] c = "1" -> 1 [] c = "2" -> 2 [] c = "3" -> 3
      [] c = "4" -> 4 [] c = "5" -> 5 [] c = "6" -> 6 [] c = "7" -> 7
      [] c = "8" -> 8 [] c = "9" -> 9

RECURSIVE LeadingDigits(_)
LeadingDigits(s) ==
    IF s # <<>> /\ Head(s) \in Digits
    THEN <<Head(s)>> \o LeadingDigits(Tail(s))
    ELSE <<>>

RECURSIVE DigitsValue(_)
DigitsValue(d) ==
    IF d = <<>> THEN 0
    ELSE 10 * DigitsValue(SubSeq(d, 1, Len(d) - 1)) + DigitVal(d[Len(d)])

\* parseInt on unsigned decimal text: the leading digits, NaN when there are none
ParseInt(s) ==
    IF LeadingDigits(s) = <<>> THEN NaN ELSE DigitsValue(LeadingDigits(s))

\* parseFloat on text with at most one fractional digit; the value in tenths
ParseFloat(s) ==
    LET int == LeadingDigits(s)
        rest == SubSeq(s, Len(int) + 1, Len(s))
        frac == IF rest # <<>> /\ Head(rest) = "." THEN LeadingDigits(Tail(rest)) ELSE <<>>
    IN  IF int = <<>> THEN NaN
        ELSE 10 * DigitsValue(int) + (IF frac = <<>> THEN 0 ELSE DigitVal(Head(frac)))

\* a || b on an optional string: undefined and '' are falsy
OrText(m, default) == IF m # None /\ m[1] # <<>> THEN m[1] ELSE default
OrName(m, default) == IF m # None /\ m[1] # "" THEN m[1] ELSE default
\* a || b on an optional number: undefined, 0 and NaN are falsy
OrNumber(m, default) == IF m # None /\ m[1] # 0 /\ m[1] # NaN THEN m[1] ELSE default

\* ------------------------------------------------------- ChatGPTService
DefaultModelName == "gpt-3.5-turbo"
DefaultMaxTokens == 1000
\* 0.7, in tenths
DefaultTemperature == 7
NumMockResponses == 4

baseUrl == "https://api.openai.com/v1"

\* new ChatGPTService(config)
ChatGPTServiceNew(config) ==
    [apiKey       |-> OrText(config.apiKey, <<>>),
     defaultModel |-> OrName(config.model, DefaultModelName),
     maxTokens    |-> OrNumber(config.maxTokens, DefaultMaxTokens),
     temperature  |-> OrNumber(config.temperature, DefaultTemperature)]

\* wrangler settings: none set, all set, and text that does not parse to a usable number
Settings ==
    {[OPENAI_MODEL |-> None, MAX_TOKENS |-> None, TEMPERATURE |-> None],
     [OPENAI_MODEL |-> Some("gpt-4"), MAX_TOKENS |-> Some(<<"5", "0">>),
      TEMPERATURE |-> Some(<<"1", ".", "2">>)],
     [OPENAI_MODEL |-> Some(""), MAX_TOKENS |-> Some(<<"x">>), TEMPERATURE |-> Some(<<"0">>)]}

Envs ==
    {[OPENAI_API_KEY |-> k, OPENAI_MODEL |-> s.OPENAI_MODEL,
      MAX_TOKENS |-> s.MAX_TOKENS, TEMPERATURE |-> s.TEMPERATURE] :
        k \in Maybe(Keys), s \in Settings}

createChatGPTService(env) ==
    ChatGPTServiceNew(
        [apiKey      |-> Some(OrText(env.OPENAI_API_KEY, <<>>)),
         model       |-> Some(OrName(env.OPENAI_MODEL, DefaultModelName)),
         maxTokens   |-> Some(ParseInt(OrText(env.MAX_TOKENS, <<"1", "0", "0", "0">>))),
         temperature |-> Some(ParseFloat(OrText(env.TEMPERATURE, <<"0", ".", "7">>)))])

\* faulty variant: the credential check without the trim
NoApiKeyNoTrim(svc) == svc.apiKey = <<>>

\* !this.apiKey || this.apiKey.trim() === ''
NoApiKey(svc) == svc.apiKey = <<>> \/ Trim(svc.apiKey) = <<>>

MockPrefix(r) ==
    CASE r = 1 -> "I understand you said: \""
      [] r = 2 -> "Thank you for your message: \""
      [] r = 3 -> "Mock AI Response: I received your message \""
      [] r = 4 -> "Hello! You asked: \""

MockSuffix(r) ==
    CASE r = 1 -> "\". This is a mock response since no API key is configured."
      [] r = 2 -> "\". Please configure your ChatGPT API key for real responses."
      [] r = 3 -> "\" but I'm running in demo mode."
      [] r = 4 -> "\". This is a placeholder response - please add your OpenAI API key."

\* r is Math.floor(Math.random() * mockResponses.length) + 1
getMockResponse(message, r) == <<MockPrefix(r)>> \o message \o <<MockSuffix(r)>>

\* options: None, or Some of a record of optional fields
OptionSets ==
    Maybe([model : Maybe(ModelNames), systemPrompt : Maybe(Prompts)])

OptField(options, f) == IF options = None THEN None ELSE options[1][f]

\* the messages array: the system turn when options?.systemPrompt is truthy, then the user turn
BuildMessages(message, options) ==
    (IF OptField(options, "systemPrompt") # None /\ OptField(options, "systemPrompt")[1] # <<>>
     THEN <<[role |-> "system", content |-> OptField(options, "systemPrompt")[1]]>>
     ELSE <<>>)
    \o <<[role |-> "user", content |-> message]>>

BuildRequestBody(svc, message, options) ==
    [model       |-> OrName(OptField(options, "model"), svc.defaultModel),
     messages    |-> BuildMessages(message, options),
     max_tokens  |-> svc.maxTokens,
     temperature |-> svc.temperature]

\* the fetch call of sendMessage
ChatCompletionCall(svc, message, options) ==
    [url           |-> <<baseUrl, "/chat/completions">>,
     method        |-> "POST",
     authorization |-> <<"Bearer ">> \o svc.apiKey,
     body          |-> BuildRequestBody(svc, message, options)]

\* --------------------------------------------------------- upstream outcomes
\* the choices of a well-formed response body, each by its message's content
ChoiceLists == SeqsUpTo(Replies, MaxChoices)

\* networkError: the fetch call rejects; httpError: response.ok is false;
\* badJson: response.json() rejects; jsonNull: the body is the JSON value null;
\* badChoice: the first choice carries no message object;
\* json: an object whose choices field is absent (None) or a list
UpstreamOutcomes ==
    {[kind |-> "networkError", status |-> 0, choices |-> None]}
    \cup {[kind |-> "httpError", status |-> s, choices |-> None] : s \in {401, 500}}
    \cup {[kind |-> k, status |-> 200, choices |-> None] : k \in {"badJson", "jsonNull", "badChoice"}}
    \cup {[kind |-> "json", status |-> 200, choices |-> c] : c \in Maybe(ChoiceLists)}

NoOutcome == [kind |-> "none", status |-> 0, choices |-> None]

Pending == [kind |-> "pending", value |-> <<>>]
Return(v) == [kind |-> "return", value |-> v]
Throw == [kind |-> "throw", value |-> <<>>]

\* faulty variant: the try block returning the last choice's content
TryBlockLastChoice(outcome) ==
    IF outcome.kind = "json" /\ outcome.choices # None /\ Len(outcome.choices[1]) > 0
    THEN Return(outcome.choices[1][Len(outcome.choices[1])])
    ELSE Throw

\* the try block after the fetch call settles: the value returned, or Throw
\* for an error raised inside the try block
TryBlock(outcome) ==
    CASE outcome.kind = "networkError" -> Throw
      [] outcome.kind = "httpError" -> Throw
      [] outcome.kind = "badJson" -> Throw
      [] outcome.kind = "jsonNull" -> Throw
      [] outcome.kind = "badChoice" -> Throw
      [] outcome.kind = "json" ->
            IF outcome.choices # None /\ Len(outcome.choices[1]) > 0
            THEN Return(outcome.choices[1][1])
            ELSE Throw

\* faulty variant: no catch clause, the error reaches the caller
SettleResultRethrow(message, outcome, r) == TryBlock(outcome)

\* try { ... } catch { return this.getMockResponse(message) }
SettleResult(message, outcome, r) ==
    IF TryBlock(outcome).kind = "throw"
    THEN Return(getMockResponse(message, r))
    ELSE TryBlock(outcome)

\* the values Math.random can contribute: drawn only when getMockResponse runs
Draws(mockNeeded) == IF mockNeeded THEN 1..NumMockResponses ELSE {1}

\* sendMessage up to its first suspension: the mock reply without a credential,
\* otherwise the request is built and the fetch call issued
SendMessageBegin(svc, message, options, r) ==
    IF NoApiKey(svc)
    THEN [pc |-> "returned", sent |-> <<>>,
          result |-> Return(getMockResponse(message, r))]
    ELSE [pc |-> "awaiting", sent |-> <<ChatCompletionCall(svc, message, options)>>,
          result |-> Pending]

\* faulty variant: a failed attempt is retried once before the fallback
SendMessageSettleRetry(message, log, outcome, r) ==
    IF TryBlock(outcome).kind = "throw" /\ Len(log) < 2
    THEN [pc |-> "awaiting", sent |-> Append(log, log[1]), result |-> Pending]
    ELSE [pc |-> "returned", sent |-> log, result |-> SettleResult(message, outcome, r)]

\* sendMessage from the settling of its fetch call to its return; log holds
\* the upstream calls issued so far
SendMessageSettle(message, log, outcome, r) ==
    [pc |-> "returned", sent |-> log, result |-> SettleResult(message, outcome, r)]

\* faulty variant: a blank value is refused at update time
updateApiKeyIfValid(svc, apiKey) ==
    IF Trim(apiKey) = <<>> THEN svc ELSE [svc EXCEPT !.apiKey = apiKey]

\* updateApiKey(apiKey)
updateApiKey(svc, apiKey) == [svc EXCEPT !.apiKey = apiKey]

\* ------------------------------------------------------- GraphQL documents
\* a document by the operation it asks for: "empty" is the empty text,
\* "invalid" a text that fails to parse or validate against the schema
Docs ==
    {[op |-> o, message |-> <<>>, model |-> None] : o \in {"empty", "invalid", "hello"}}
    \cup {[op |-> "chat", message |-> m, model |-> None] : m \in Messages}
    \cup {[op |-> "sendMessage", message |-> m, model |-> mo] :
            m \in Messages, mo \in Maybe(ModelNames)}

InvalidDoc == [op |-> "invalid", message |-> <<>>, model |-> None]

\* ------------------------------------------------------------ HTTP requests
Methods == {"GET", "POST", "OPTIONS", "PUT"}
Paths == {"/health", "/graphql", "/", "/playground", "/unknown-path"}

ContentTypes ==
    {None, Some(<<"application/json">>), Some(<<"application/json", "; charset=utf-8">>),
     Some(<<"application/graphql">>), Some(<<"text/plain">>)}

\* a body text: raw GraphQL text, or JSON text (the value null, or an object
\* with or without a query field)
BodyTexts ==
    {[fmt |-> "graphql", isNull |-> FALSE, query |-> Some(d)] : d \in Docs}
    \cup {[fmt |-> "json", isNull |-> TRUE, query |-> None]}
    \cup {[fmt |-> "json", isNull |-> FALSE, query |-> q] : q \in Maybe(Docs)}

\* the variables search parameter, by whether JSON.parse accepts it
VariableTexts == {"validJson", "invalidJson"}

Requests ==
    {[method |-> m, path |-> p, contentType |-> None, body |-> None,
      query |-> None, variables |-> None] : m \in Methods, p \in Paths}
    \cup {[method |-> "GET", path |-> "/graphql", contentType |-> None, body |-> None,
           query |-> q, variables |-> v] : q \in Maybe(Docs), v \in Maybe(VariableTexts)}
    \cup {[method |-> "POST", path |-> "/graphql", contentType |-> c, body |-> Some(b),
           query |-> None, variables |-> None] : c \in ContentTypes, b \in BodyTexts}

NoRequest ==
    [method |-> "", path |-> "", contentType |-> None, body |-> None,
     query |-> None, variables |-> None]

\* ----------------------------------------------------------------- gateway
corsHeaders ==
    {<<"Access-Control-Allow-Origin", "*">>,
     <<"Access-Control-Allow-Methods", "GET, POST, OPTIONS">>,
     <<"Access-Control-Allow-Headers", "Content-Type, Authorization">>}

StatusOk == 200

NoResponse == [status |-> 0, headers |-> {}, body |-> [kind |-> "none"]]

\* handleCORS: the preflight response, or null
handleCORS(request) ==
    IF request.method = "OPTIONS"
    THEN Some([status |-> 200, headers |-> corsHeaders, body |-> [kind |-> "empty"]])
    ELSE None

\* contentType?.includes(t)
Includes(contentType, t) ==
    contentType # None /\ \E i \in 1..Len(contentType[1]) : contentType[1][i] = t

\* the text of a body read as a GraphQL document
BodyAsDocument(b) == IF b.fmt = "graphql" THEN b.query[1] ELSE InvalidDoc

ParsedNull == [kind |-> "null", query |-> None]
ParsedThrow == [kind |-> "throw", query |-> None]
Parsed(q) == [kind |-> "request", query |-> q]

\* parseGraphQLRequest: null, a request object, or an exception
parseGraphQLRequest(request) ==
    IF request.method = "POST"
    THEN IF Includes(request.contentType, "application/json")
         THEN IF request.body[1].fmt # "json" THEN ParsedNull
              ELSE IF request.body[1].isNull THEN ParsedNull
              ELSE Parsed(request.body[1].query)
         ELSE IF Includes(request.contentType, "application/graphql")
         THEN Parsed(Some(BodyAsDocument(request.body[1])))
         ELSE ParsedNull
    ELSE IF request.method = "GET"
    THEN IF request.query # None /\ request.query[1].op # "empty"
         THEN IF request.variables # None /\ request.variables[1] = "invalidJson"
              THEN ParsedThrow
              ELSE Parsed(request.query)
         ELSE ParsedNull
    ELSE ParsedNull

HealthResponse ==
    [status |-> StatusOk,
     headers |-> {<<"Content-Type", "application/json">>} \cup corsHeaders,
     body |-> [kind |-> "health", status |-> "healthy", timestamp |-> "now",
               version |-> "1.0.0"]]

InvalidRequestResponse ==
    [status |-> 400,
     headers |-> {<<"Content-Type", "application/json">>} \cup corsHeaders,
     body |-> [kind |-> "error", error |-> "Invalid GraphQL request"]]

\* faulty variant: a result carrying errors answered with status 400
ResultResponseStatusByErrors(executionResult) ==
    [status |-> IF executionResult.errors # <<>> THEN 400 ELSE StatusOk,
     headers |-> {<<"Content-Type", "application/json">>} \cup corsHeaders,
     body |-> [kind |-> "result", data |-> executionResult.data,
               errors |-> executionResult.errors]]

ResultResponse(executionResult) ==
    [status |-> StatusOk,
     headers |-> {<<"Content-Type", "application/json">>} \cup corsHeaders,
     body |-> [kind |-> "result", data |-> executionResult.data,
               errors |-> executionResult.errors]]

\* faulty variant: the 500 response without the cross-origin headers
InternalErrorResponseNoCors ==
    [status |-> 500,
     headers |-> {<<"Content-Type", "application/json">>},
     body |-> [kind |-> "error", error |-> "Internal server error",
               message |-> "error.message"]]

InternalErrorResponse ==
    [status |-> 500,
     headers |-> {<<"Content-Type", "application/json">>} \cup corsHeaders,
     body |-> [kind |-> "error", error |-> "Internal server error",
               message |-> "error.message"]]

PlaygroundResponse ==
    [status |-> StatusOk,
     headers |-> {<<"Content-Type", "text/html">>} \cup corsHeaders,
     body |-> [kind |-> "html"]]

NotFoundResponse ==
    [status |-> 404,
     headers |-> {<<"Content-Type", "application/json">>} \cup corsHeaders,
     body |-> [kind |-> "error", error |-> "Not Found",
               message |-> "Available endpoints: /, /graphql, /health"]]

\* faulty variant: the health route tested before the preflight check
RouteOfHealthFirst(request) ==
    IF request.path = "/health" THEN "health"
    ELSE IF handleCORS(request) # None THEN "preflight"
    ELSE IF request.path = "/graphql" THEN "graphql"
    ELSE IF request.path = "/playground" \/ request.path = "/" THEN "playground"
    ELSE "notFound"

\* the order of the checks in fetch
RouteOf(request) ==
    IF handleCORS(request) # None THEN "preflight"
    ELSE IF request.path = "/health" THEN "health"
    ELSE IF request.path = "/graphql" THEN "graphql"
    ELSE IF request.path = "/playground" \/ request.path = "/" THEN "playground"
    ELSE "notFound"

\* --------------------------------------------------------------- resolvers
ResolverDefaultModel == "gpt-3.5-turbo"

HelloResult == [data |-> Some([hello |-> "Hello from AI Chat Service!"]), errors |-> <<>>]

ChatResult(message) ==
    [data |-> Some([chat |-> [id |-> "id", message |-> <<"Echo: ">> \o message,
                              timestamp |-> "now", model |-> ResolverDefaultModel]]),
     errors |-> <<>>]

\* the engine's answer to a source that is absent or does not parse or validate
DocumentErrorResult == [data |-> None, errors |-> <<"document error">>]

\* the options Mutation.sendMessage hands to chatService.sendMessage
ResolverOptions(input) ==
    Some([model |-> Some(OrName(input.model, ResolverDefaultModel)), systemPrompt |-> None])

\* Mutation.sendMessage after chatService.sendMessage settled: the ChatResponse,
\* or the wrapped error on the engine's error channel
SendMessageResult(input, outcome) ==
    IF outcome.kind = "return"
    THEN [data |-> Some([sendMessage |->
                    [id |-> "id", message |-> outcome.value, timestamp |-> "now",
                     model |-> OrName(input.model, ResolverDefaultModel)]]),
          errors |-> <<>>]
    ELSE [data |-> Some([sendMessage |-> "null"]), errors |-> <<"Chat service error">>]

\* the operation the engine runs for a parsed request's source
OperationOf(query) ==
    IF query = None \/ query[1].op = "empty" \/ query[1].op = "invalid"
    THEN "documentError"
    ELSE query[1].op

\* ------------------------------------------------------------------ state
VARIABLES
    service,    \* the ChatGPTService instance: apiKey, defaultModel, maxTokens, temperature
    latest,     \* Some of the value most recently passed to updateApiKey; None before the first update
    pc,         \* sendMessage: "idle", "awaiting" (the fetch call is in flight), "returned"
    call,       \* the arguments of the current sendMessage invocation
    sent,       \* the upstream calls the current invocation has issued
    upstream,   \* how the upstream call of the current invocation settled
    result,     \* what the current invocation gave its caller: Pending, Return(v) or Throw
    gpc,        \* the fetch handler: "idle", "executing", "responded", "escaped" (it threw)
    req,        \* the request the handler is serving
    engine,     \* graphql() for this request: "notRun", "running", "returned", "threw"
    resp        \* the Response the handler returned

vars == <<service, latest, pc, call, sent, upstream, result, gpc, req, engine, resp>>

NoCall == [message |-> <<>>, options |-> None]

Init ==
    /\ \E e \in Envs : service = createChatGPTService(e)
    /\ latest = None
    /\ pc = "idle"
    /\ call = NoCall
    /\ sent = <<>>
    /\ upstream = NoOutcome
    /\ result = Pending
    /\ gpc = "idle"
    /\ req = NoRequest
    /\ engine = "notRun"
    /\ resp = NoResponse

\* -------------------------------------------------- the client used directly
UpdateApiKey ==
    /\ gpc = "idle"
    /\ \E apiKey \in Keys :
        /\ service' = updateApiKey(service, apiKey)
        /\ latest' = Some(apiKey)
    /\ UNCHANGED <<pc, call, sent, upstream, result, gpc, req, engine, resp>>

SendMessage ==
    /\ gpc = "idle"
    /\ pc = "idle"
    /\ \E message \in Messages, options \in OptionSets, r \in Draws(NoApiKey(service)) :
        LET next == SendMessageBegin(service, message, options, r) IN
        /\ call' = [message |-> message, options |-> options]
        /\ pc' = next.pc
        /\ sent' = next.sent
        /\ result' = next.result
    /\ upstream' = NoOutcome
    /\ UNCHANGED <<service, latest, gpc, req, engine, resp>>

\* the upstream call settles and sendMessage runs to its return
UpstreamSettle ==
    /\ pc = "awaiting"
    /\ \E outcome \in UpstreamOutcomes :
       \E r \in Draws(TryBlock(outcome).kind = "throw") :
        LET next == SendMessageSettle(call.message, sent, outcome, r) IN
        /\ upstream' = outcome
        /\ pc' = next.pc
        /\ sent' = next.sent
        /\ result' = next.result
    /\ UNCHANGED <<service, latest, call, gpc, req, engine, resp>>

\* the caller takes the settled result; the invocation is over
SendMessageDone ==
    /\ gpc = "idle"
    /\ pc = "returned"
    /\ pc' = "idle"
    /\ call' = NoCall
    /\ sent' = <<>>
    /\ upstream' = NoOutcome
    /\ result' = Pending
    /\ UNCHANGED <<service, latest, gpc, req, engine, resp>>

\* ------------------------------------------------------------- the gateway
\* fetch for a request that is not routed to /graphql
StaticResponse(request) ==
    CASE RouteOf(request) = "preflight" -> handleCORS(request)[1]
      [] RouteOf(request) = "health" -> HealthResponse
      [] RouteOf(request) = "playground" -> PlaygroundResponse
      [] RouteOf(request) = "notFound" -> NotFoundResponse

FetchStatic ==
    /\ gpc = "idle"
    /\ pc = "idle"
    /\ \E request \in Requests :
        /\ RouteOf(request) # "graphql"
        /\ req' = request
        /\ resp' = StaticResponse(request)
    /\ gpc' = "responded"
    /\ UNCHANGED <<service, latest, pc, call, sent, upstream, result, engine>>

\* fetch for /graphql when parseGraphQLRequest returns null or throws
GraphQLRejected(request) ==
    IF parseGraphQLRequest(request).kind = "throw"
    THEN [gpc |-> "escaped", resp |-> NoResponse]
    ELSE [gpc |-> "responded", resp |-> InvalidRequestResponse]

FetchGraphQLRejected ==
    /\ gpc = "idle"
    /\ pc = "idle"
    /\ \E request \in Requests :
        /\ RouteOf(request) = "graphql"
        /\ parseGraphQLRequest(request).kind # "request"
        /\ req' = request
        /\ gpc' = GraphQLRejected(request).gpc
        /\ resp' = GraphQLRejected(request).resp
    /\ UNCHANGED <<service, latest, pc, call, sent, upstream, result, engine>>

\* what graphql() gives for an operation that calls no service
ExecutionResult(query) ==
    CASE OperationOf(query) = "documentError" -> DocumentErrorResult
      [] OperationOf(query) = "hello" -> HelloResult
      [] OperationOf(query) = "chat" -> ChatResult(query[1].message)

\* fetch for /graphql with a request object, the engine's promise rejecting
\* (fault) or resolving without a call of the chat service
FetchGraphQLExecute ==
    /\ gpc = "idle"
    /\ pc = "idle"
    /\ \E request \in Requests, e \in Envs, fault \in BOOLEAN :
        LET parsed == parseGraphQLRequest(request) IN
        /\ RouteOf(request) = "graphql"
        /\ parsed.kind = "request"
        /\ fault \/ OperationOf(parsed.query) # "sendMessage"
        /\ req' = request
        /\ engine' = IF fault THEN "threw" ELSE "returned"
        /\ resp' = IF fault THEN InternalErrorResponse
                   ELSE ResultResponse(ExecutionResult(parsed.query))
        /\ service' = createChatGPTService(e)
    /\ latest' = None
    /\ gpc' = "responded"
    /\ UNCHANGED <<pc, call, sent, upstream, result>>

\* fetch for /graphql with a sendMessage mutation, up to the resolver's
\* await of chatService.sendMessage
FetchGraphQLMutation ==
    /\ gpc = "idle"
    /\ pc = "idle"
    /\ \E request \in Requests, e \in Envs :
       \E r \in Draws(NoApiKey(createChatGPTService(e))) :
        LET parsed == parseGraphQLRequest(request)
            input == parsed.query[1]
            next == SendMessageBegin(createChatGPTService(e), input.message,
                                     ResolverOptions(input), r)
        IN
        /\ RouteOf(request) = "graphql"
        /\ parsed.kind = "request"
        /\ OperationOf(parsed.query) = "sendMessage"
        /\ req' = request
        /\ call' = [message |-> input.message, options |-> ResolverOptions(input)]
        /\ pc' = next.pc
        /\ sent' = next.sent
        /\ result' = next.result
        /\ service' = createChatGPTService(e)
    /\ latest' = None
    /\ engine' = "running"
    /\ gpc' = "executing"
    /\ UNCHANGED <<upstream, resp>>

\* chatService.sendMessage has settled: the resolver, the engine and fetch
\* run to the Response
GraphQLRespond ==
    /\ gpc = "executing"
    /\ pc = "returned"
    /\ engine' = "returned"
    /\ resp' = ResultResponse(SendMessageResult(parseGraphQLRequest(req).query[1], result))
    /\ gpc' = "responded"
    /\ UNCHANGED <<service, latest, pc, call, sent, upstream, result, req>>

\* ---------------------------------------------------------- specifications
\* the completion client driven by a direct caller
Next == UpdateApiKey \/ SendMessage \/ UpstreamSettle \/ SendMessageDone

Spec == Init /\ [][Next]_vars

\* the worker serving one request
GatewayNext ==
    \/ FetchStatic
    \/ FetchGraphQLRejected
    \/ FetchGraphQLExecute
    \/ FetchGraphQLMutation
    \/ UpstreamSettle
    \/ GraphQLRespond

GatewaySpec == Init /\ [][GatewayNext]_vars

\* ===================================================================== claims
\* the four placeholder templates of the specification, instantiated with m
PlaceholderTemplates(m) ==
    {<<"I understand you said: \"">> \o m
        \o <<"\". This is a mock response since no API key is configured.">>,
     <<"Thank you for your message: \"">> \o m
        \o <<"\". Please configure your ChatGPT API key for real responses.">>,
     <<"Mock AI Response: I received your message \"">> \o m
        \o <<"\" but I'm running in demo mode.">>,
     <<"Hello! You asked: \"">> \o m
        \o <<"\". This is a placeholder response - please add your OpenAI API key.">>}

\* m occurs in s as a contiguous run
ContainsText(s, m) ==
    \E i \in 1..(Len(s) + 1) :
        /\ i + Len(m) - 1 <= Len(s)
        /\ \A j \in 1..Len(m) : s[i + j - 1] = m[j]

\* a credential that is empty or consists of whitespace only
Blank(k) == \A i \in 1..Len(k) : k[i] = " "

\* the upstream failure outcomes: non-success status, transport error,
\* malformed body, well-formed body with zero choices
UpstreamFailed(o) ==
    \/ o.kind \in {"networkError", "httpError", "badJson", "jsonNull", "badChoice"}
    \/ o.kind = "json" /\ (o.choices = None \/ o.choices[1] = <<>>)

\* the upstream call answered with a success status and at least one choice
UpstreamSucceeded(o) ==
    o.kind = "json" /\ o.choices # None /\ Len(o.choices[1]) >= 1

\* C1: with a credential configured, whatever way the upstream call fails,
\* sendMessage returns one of the four placeholder templates instantiated
\* with the message, and no invocation ever raises an error to its caller.
C1_FailureGivesPlaceholder ==
    /\ result.kind # "throw"
    /\ (pc = "returned" /\ UpstreamFailed(upstream))
          => /\ result.kind = "return"
             /\ result.value \in PlaceholderTemplates(call.message)

C1_Witness ==
    /\ pc = "returned"
    /\ upstream.kind = "json" /\ upstream.choices = Some(<<>>)
    /\ call.message # <<>>
    /\ result.value \in PlaceholderTemplates(call.message)

\* C2: a sendMessage invoked while the held credential is absent, empty or
\* blank returns at once a text that contains the input message, and issues
\* no upstream call.
C2_NoCredentialEchoesWithoutNetwork ==
    [][(pc = "idle" /\ pc' # "idle" /\ Blank(service.apiKey))
          => /\ pc' = "returned"
             /\ sent' = <<>>
             /\ result'.kind = "return"
             /\ ContainsText(result'.value, call'.message)]_vars

C2_Witness ==
    /\ pc = "returned"
    /\ service.apiKey = <<" ">>
    /\ latest = None
    /\ sent = <<>>
    /\ call.message # <<>>
    /\ ContainsText(result.value, call.message)

\* C3: when the upstream call answers with a success status and a body with
\* at least one choice, sendMessage returns exactly the first choice's
\* content, however many choices follow.
C3_SuccessReturnsFirstChoice ==
    (pc = "returned" /\ UpstreamSucceeded(upstream))
        => result = Return(upstream.choices[1][1])

C3_Witness ==
    /\ pc = "returned"
    /\ UpstreamSucceeded(upstream)
    /\ Len(upstream.choices[1]) = 2
    /\ upstream.choices[1][1] # upstream.choices[1][2]
    /\ result.value = upstream.choices[1][1]

\* C4: an invocation with a non-blank credential issues exactly one upstream
\* call; once that call is in flight no step adds another, so a failed
\* attempt goes to the fallback without a retry.
C4_ExactlyOneAttempt ==
    [][/\ Len(sent') <= 1
       /\ (pc = "idle" /\ pc' # "idle" /\ ~Blank(service.apiKey))
             => (pc' = "awaiting" /\ Len(sent') = 1)
       /\ (pc = "awaiting") => (sent' = sent /\ pc' \in {"awaiting", "returned"})
       /\ (pc = "returned" /\ pc' # "idle") => sent' = sent]_vars

C4_Witness ==
    /\ pc = "returned"
    /\ Len(sent) = 1
    /\ UpstreamFailed(upstream)
    /\ result.value \in PlaceholderTemplates(call.message)

\* C10: updateApiKey replaces the held credential by exactly the value given,
\* blank or not, and issues no upstream call; the next sendMessage issues no
\* call when the latest value is blank and otherwise issues its call with
\* exactly that value as bearer token; the default model, maxTokens and
\* temperature never change.
C10_UpdateTakesEffect ==
    [][/\ service'.defaultModel = service.defaultModel
       /\ service'.maxTokens = service.maxTokens
       /\ service'.temperature = service.temperature
       /\ latest' # None => service'.apiKey = latest'[1]
       /\ latest' # latest => (sent' = sent /\ pc' = pc /\ result' = result)
       /\ (latest # None /\ pc = "idle" /\ pc' # "idle")
             => IF Blank(latest[1])
                THEN pc' = "returned" /\ sent' = <<>>
                ELSE /\ pc' = "awaiting"
                     /\ Len(sent') = 1
                     /\ sent'[1].authorization = <<"Bearer ">> \o latest[1]]_vars

C10_Witness ==
    /\ latest = Some(<<"k">>)
    /\ pc = "awaiting"
    /\ sent = <<ChatCompletionCall(service, call.message, call.options)>>
    /\ sent[1].authorization = <<"Bearer ", "k">>

\* ------------------------------------------------------------ gateway claims
\* the three cross-origin headers of the specification
CrossOriginHeaders ==
    {<<"Access-Control-Allow-Origin", "*">>,
     <<"Access-Control-Allow-Methods", "GET, POST, OPTIONS">>,
     <<"Access-Control-Allow-Headers", "Content-Type, Authorization">>}

IsJsonRequest(request) ==
    request.contentType # None
    /\ \E i \in 1..Len(request.contentType[1]) : request.contentType[1][i] = "application/json"

IsGraphQLTextRequest(request) ==
    request.contentType # None
    /\ \E i \in 1..Len(request.contentType[1]) : request.contentType[1][i] = "application/graphql"

NoQuery(q) == q = None \/ q[1].op = "empty"

\* the cases of a malformed or missing query the specification lists: a GET
\* without a query parameter, a POST JSON body that does not parse, and a
\* POST JSON body whose query field is empty or absent
MissingOrMalformedQuery(request) ==
    /\ request.path = "/graphql"
    /\ \/ request.method = "GET" /\ NoQuery(request.query)
       \/ /\ request.method = "POST"
          /\ IsJsonRequest(request)
          /\ \/ request.body[1].fmt # "json"
             \/ request.body[1].isNull
             \/ NoQuery(request.body[1].query)

\* every /graphql request that carries no usable query, the cases above included
NoUsableQuery(request) ==
    /\ request.path = "/graphql"
    /\ \/ request.method \notin {"GET", "POST"}
       \/ MissingOrMalformedQuery(request)
       \/ /\ request.method = "POST"
          /\ ~IsJsonRequest(request)
          /\ ~IsGraphQLTextRequest(request)

\* a GET whose query is present and whose variables parameter is not valid JSON
InvalidVariables(request) ==
    /\ request.method = "GET"
    /\ ~NoQuery(request.query)
    /\ request.variables = Some("invalidJson")

RoutedPaths == {"/health", "/graphql", "/", "/playground"}

Served == gpc \in {"responded", "escaped"}

\* C5: a /graphql request whose query is malformed or missing is answered
\* with status 400 and the body {error: "Invalid GraphQL request"}, and the
\* engine is not executed for it.
C5_MalformedQueryIs400 ==
    (Served /\ req.method # "OPTIONS" /\ MissingOrMalformedQuery(req))
        => /\ gpc = "responded"
           /\ resp.status = 400
           /\ resp.body = [kind |-> "error", error |-> "Invalid GraphQL request"]
           /\ engine = "notRun"

C7_OnlyMalformedAndFaultAreNon200 ==
    (gpc = "responded" /\ ~NoUsableQuery(req) /\ engine # "threw" /\ ~InvalidVariables(req))
        => resp.status = 200

\* C7, amended: a non-200 response is the 400 of a /graphql request without
\* a usable query, the 500 of an engine exception, or the 404 of a path
\* outside the route table; every other response has status 200, those of a
\* GraphQL operation answered with an errors list and of a sendMessage
\* mutation whose upstream call failed included.
C7_Non200Classes ==
    gpc = "responded" =>
        /\ \/ resp.status = 200
           \/ resp.status = 400 /\ req.method # "OPTIONS" /\ NoUsableQuery(req)
           \/ resp.status = 500 /\ req.path = "/graphql" /\ engine = "threw"
           \/ resp.status = 404 /\ req.method # "OPTIONS" /\ req.path \notin RoutedPaths
        /\ (~NoUsableQuery(req) /\ engine # "threw" /\ req.path \in RoutedPaths)
              => resp.status = 200
        /\ engine = "returned" => resp.status = 200

C7_Witness ==
    /\ gpc = "responded"
    /\ engine = "returned"
    /\ UpstreamFailed(upstream)
    /\ resp.status = 200
    /\ resp.body.kind = "result"
    /\ resp.body.errors = <<>>
    /\ resp.body.data[1].sendMessage.message \in PlaceholderTemplates(call.message)

\* C8: an OPTIONS request to any path is answered 200 with an empty body; any
\* other request to /health is answered 200 with status "healthy"; any other
\* request to a path outside /health, /graphql, / and /playground is answered
\* 404 with error "Not Found".
C8_RouteDispatch ==
    Served =>
        /\ req.method = "OPTIONS"
              => (gpc = "responded" /\ resp.status = 200 /\ resp.body = [kind |-> "empty"])
        /\ (req.method # "OPTIONS" /\ req.path = "/health")
              => /\ gpc = "responded"
                 /\ resp.status = 200
                 /\ resp.body.kind = "health"
                 /\ resp.body.status = "healthy"
        /\ (req.method # "OPTIONS" /\ req.path \notin RoutedPaths)
              => /\ gpc = "responded"
                 /\ resp.status = 404
                 /\ resp.body.kind = "error"
                 /\ resp.body.error = "Not Found"

C8_Witness ==
    /\ gpc = "responded"
    /\ req.method = "OPTIONS"
    /\ req.path = "/health"
    /\ resp.status = 200
    /\ resp.body = [kind |-> "empty"]

\* C9: a fault thrown while a non-OPTIONS /graphql request is handled, be it
\* a variables parameter that is not valid JSON or an exception of the
\* engine, is answered with status 500 and a body {error, message}; no
\* exception escapes the fetch handler.
C9_FaultsAre500 ==
    /\ gpc # "escaped"
    /\ (Served /\ req.method # "OPTIONS" /\ req.path = "/graphql"
          /\ (engine = "threw" \/ InvalidVariables(req)))
          => /\ resp.status = 500
             /\ resp.body.kind = "error"
             /\ DOMAIN resp.body = {"kind", "error", "message"}

====
